---- MODULE Spec2Model ----
(***************************************************************************)
(* A model of src/main.py: the TalkAI -> OpenAI adapter.                   *)
(*                                                                         *)
(* One inbound request is followed from its arrival through the security   *)
(* dependency, the handler (list_models or chat_completions), the upstream *)
(* call and the response adapter (aggregate_stream or stream_generator).   *)
(* Texts are sequences of one-character strings, so that startswith,       *)
(* slicing, strip and replace are computed and not assumed.                *)
(***************************************************************************)
EXTENDS Integers, Sequences, FiniteSets, TLC

VARIABLES
    VALID_CLIENT_KEYS,  \* the inbound credentials loaded at startup
    catalog,        \* the model ids models.json yields (<<>> when unreadable)
    now,            \* int(time.time())
    pc,             \* where the request is
    req,            \* the inbound request
    messages_history,   \* messagesHistory of the upstream payload
    upstreamCalls,  \* how many times client.send was called for the request
    conn,           \* the upstream response stream: "none", "open", "closed"
    linesRead,      \* the upstream lines response.aiter_lines() has yielded
    content,        \* aggregate_stream's list `content`
    frames,         \* the frames stream_generator has yielded
    responses,      \* the outward responses the request was answered with
    fault,          \* the exception the upstream call raised, if any
    modelsLog       \* the bodies GET /v1/models has returned so far

vars == <<VALID_CLIENT_KEYS, catalog, now, pc, req, messages_history, upstreamCalls, conn,
          linesRead, content, frames, responses, fault, modelsLog>>

---------------------------------------------------------------------------
(* Bounds of the model *)

MaxLines == 3
MaxMsgs == 3
MaxTime == 2
MaxCalls == 3

---------------------------------------------------------------------------
(* Text: Python's str operations on sequences of characters *)

BSL == "\\"
NL == "\n"
SP == " "

EventPrefix == <<"d", "a", "t", "a", ":">>

\* str.startswith(p)
StartsWith(s, p) == Len(s) >= Len(p) /\ SubSeq(s, 1, Len(p)) = p

\* s[n:]
DropFirst(s, n) == SubSeq(s, n + 1, Len(s))

IsSpace(c) == c \in {SP, "\t"}

RECURSIVE LStrip(_)
LStrip(s) == IF s # <<>> /\ IsSpace(Head(s)) THEN LStrip(Tail(s)) ELSE s

RECURSIVE RStrip(_)
RStrip(s) ==
    IF s # <<>> /\ IsSpace(s[Len(s)]) THEN RStrip(SubSeq(s, 1, Len(s) - 1)) ELSE s

\* str.strip()
Strip(s) == RStrip(LStrip(s))

\* s.replace("\\n", "\n"): left to right, non-overlapping
RECURSIVE DecodeNewlines(_)
DecodeNewlines(s) ==
    IF s = <<>> THEN <<>>
    ELSE IF Len(s) >= 2 /\ s[1] = BSL /\ s[2] = "n"
         THEN <<NL>> \o DecodeNewlines(DropFirst(s, 2))
         ELSE <<s[1]>> \o DecodeNewlines(Tail(s))

\* "".join(list)
RECURSIVE Join(_)
Join(ss) == IF ss = <<>> THEN <<>> ELSE Head(ss) \o Join(Tail(ss))

Sentinel == <<"-", "1">>

---------------------------------------------------------------------------
(* Inbound requests *)

NoAuth == [scheme |-> "none", credentials |-> ""]
Bearer(k) == [scheme |-> "Bearer", credentials |-> k]
Basic(k) == [scheme |-> "Basic", credentials |-> k]

\* What PASSWORD may have held at startup: unset, or one key
KeyConfigs == {{}, {"sk-abc"}}

AuthHeaders == {NoAuth, Bearer("sk-abc"), Bearer("wrong"), Basic("sk-abc")}

StrContent(s) == [kind |-> "str", text |-> s, parts |-> <<>>]
ListContent(ps) == [kind |-> "list", text |-> <<>>, parts |-> ps]
TextPart(s) == [type |-> "text", hasText |-> TRUE, text |-> s]
BareTextPart == [type |-> "text", hasText |-> FALSE, text |-> <<>>]
ImagePart == [type |-> "image_url", hasText |-> FALSE, text |-> <<>>]
Msg(r, c) == [role |-> r, content |-> c]

Roles == {"system", "user", "assistant", "tool"}

Contents ==
    { StrContent(<<>>), StrContent(<<"a">>),
      ListContent(<<TextPart(<<"b">>), ImagePart, TextPart(<<"c">>)>>),
      ListContent(<<BareTextPart, ImagePart>>) }

Messages == {Msg(r, c) : r \in Roles, c \in Contents}

\* Every message list of at most MaxMsgs messages
MessageLists == UNION {[1..k -> Messages] : k \in 0..MaxMsgs}

\* The message lists the gateway specification sends through the whole pipeline
ChatBodies ==
    { <<>>,
      <<Msg("user", StrContent(<<"a">>))>>,
      <<Msg("system", StrContent(<<"a">>)),
        Msg("user", ListContent(<<TextPart(<<"b">>)>>))>> }

NoRequest == [route |-> "none", auth |-> NoAuth, messages |-> <<>>, stream |-> FALSE]

---------------------------------------------------------------------------
(* Outward responses *)

Response(status, detail, text) ==
    [status |-> status, detail |-> detail, content |-> text]

\* raise HTTPException(status_code=..., detail=...)
HTTPException(status, detail) == Response(status, detail, <<>>)

---------------------------------------------------------------------------
(* Authentication: security = HTTPBearer(); authenticate_client *)

\* The status HTTPBearer's auto_error answers with: 403 in the FastAPI releases
\* before 0.122, 401 since. The repository pins no release.
BearerRejectStatus == {401, 403}

\* security = HTTPBearer(): auto_error is left at its default, True, so a
\* request without a usable bearer header never reaches authenticate_client.
\* "missing": no header, "scheme": not a bearer scheme, "ok": credentials.
HTTPBearer(auth) ==
    IF auth.scheme = "none" \/ auth.credentials = "" THEN "missing"
    ELSE IF auth.scheme # "Bearer" THEN "scheme"
    ELSE "ok"

\* if VALID_CLIENT_KEYS and (not auth or auth.credentials not in VALID_CLIENT_KEYS)
AuthRejects(keys, auth) ==
    keys # {} /\ (auth.scheme = "none" \/ auth.credentials \notin keys)

---------------------------------------------------------------------------
(* GET /v1/models *)

ModelInfo(id, created) ==
    [id |-> id, object |-> "model", created |-> created, owned_by |-> "talkai"]

\* What models.json may yield: unreadable (the bare except), one id, two ids
Catalogs == {<<>>, <<"m1">>, <<"m1", "m2">>}

\* get_models_list: a ModelInfo per value, each created by its default factory
get_models_list(ids, t) == [i \in 1..Len(ids) |-> ModelInfo(ids[i], t)]

---------------------------------------------------------------------------
(* Request translation: chat_completions, lines 198-228 *)

PartText(part) ==
    IF part.type = "text" THEN (IF part.hasText THEN part.text ELSE <<>>) ELSE <<>>

\* for part in msg.content: current_content += part.get("text", "")
RECURSIVE PartsText(_)
PartsText(parts) ==
    IF parts = <<>> THEN <<>> ELSE PartText(Head(parts)) \o PartsText(Tail(parts))

current_content(msg) ==
    IF msg.content.kind = "str" THEN msg.content.text
    ELSE PartsText(msg.content.parts)

HistoryEntry(msg) ==
    [from |-> IF msg.role = "user" THEN "you" ELSE "assistant",
     content |-> current_content(msg)]

\* for msg in request.messages: ...
RECURSIVE TranslateLoop(_, _, _)
TranslateLoop(msgs, history, system_prompt) ==
    IF msgs = <<>> THEN [history |-> history, system_prompt |-> system_prompt]
    ELSE LET msg == Head(msgs) IN
         IF msg.role = "system"
         THEN TranslateLoop(Tail(msgs), history, current_content(msg))
         ELSE IF msg.role \in {"user", "assistant"}
              THEN TranslateLoop(Tail(msgs), Append(history, HistoryEntry(msg)),
                                 system_prompt)
              ELSE TranslateLoop(Tail(msgs), history, system_prompt)

\* f"{system_prompt}\n\n{messages_history[-1]['content']}"
MergedContent(system_prompt, last) == system_prompt \o <<NL, NL>> \o last

\* A faulty variant of MergeSystem: the sender of the last entry is not looked at
MergeSystem_AnySender(history, system_prompt) ==
    IF system_prompt # <<>> /\ history # <<>>
    THEN [history EXCEPT ![Len(history)].content =
              MergedContent(system_prompt, history[Len(history)].content)]
    ELSE history

\* if system_prompt and messages_history and messages_history[-1]["from"] == "you"
MergeSystem(history, system_prompt) ==
    IF system_prompt # <<>> /\ history # <<>> /\ history[Len(history)].from = "you"
    THEN [history EXCEPT ![Len(history)].content =
              MergedContent(system_prompt, history[Len(history)].content)]
    ELSE history

Translate(msgs) ==
    LET r == TranslateLoop(msgs, <<>>, <<>>) IN MergeSystem(r.history, r.system_prompt)

---------------------------------------------------------------------------
(* Upstream failures and their mapping: chat_completions, lines 274-306 *)

NoFault == [class |-> "none", status |-> 0, detail |-> ""]
Fault(c, d) == [class |-> c, status |-> 0, detail |-> d]
StatusFault(st) == [class |-> "HTTPStatusError", status |-> st, detail |-> ""]

\* httpx's exception classes below httpx.RequestError
RequestErrors ==
    {"ConnectTimeout", "ReadTimeout", "WriteTimeout", "ConnectError", "ReadError",
     "RemoteProtocolError"}

FaultDetails == {"peer reset", "trace"}

\* What `await client.send(req, stream=True)` may raise
SendFaults ==
    {Fault(c, d) : c \in {"ConnectTimeout", "ConnectError", "ReadTimeout",
                          "WriteTimeout", "RuntimeError"},
                   d \in FaultDetails}

\* What reading a line of the upstream body may raise
ReadFaults ==
    {Fault(c, d) : c \in {"ReadTimeout", "ReadError", "RemoteProtocolError",
                          "RuntimeError"},
                   d \in FaultDetails}

\* The statuses the upstream answers with
UpstreamStatuses == {200, 400, 401, 403, 404, 429, 500, 503}

\* response.raise_for_status()
IsErrorStatus(st) == st >= 400

\* except httpx.HTTPStatusError as e: error_detail selection
StatusDetail(st) ==
    IF st = 401
    THEN <<"TalkAI API authentication failed - API key may be invalid or expired">>
    ELSE IF st = 403
    THEN <<"TalkAI API access forbidden - API key may lack permissions">>
    ELSE IF st = 429
    THEN <<"TalkAI API rate limit exceeded - please try again later">>
    ELSE IF st >= 500
    THEN <<"TalkAI API server error - downstream service may be temporarily unavailable">>
    ELSE <<"TalkAI API error (HTTP ", ToString(st), ")">>

\* A faulty variant of ErrorMap: httpx.RequestError is caught before its subclasses
ErrorMap_RequestErrorFirst(f) ==
    IF f.class = "HTTPStatusError" THEN HTTPException(f.status, StatusDetail(f.status))
    ELSE IF f.class \in RequestErrors
    THEN HTTPException(502, <<"Network request error: ", f.detail>>)
    ELSE HTTPException(500, <<"Internal server error - check logs for details">>)

\* The except clauses, in the order they are written
ErrorMap(f) ==
    IF f.class = "HTTPStatusError" THEN HTTPException(f.status, StatusDetail(f.status))
    ELSE IF f.class = "ConnectTimeout"
    THEN HTTPException(504,
           <<"Connection timeout to TalkAI API - network issue or service unavailable">>)
    ELSE IF f.class = "ReadTimeout"
    THEN HTTPException(504, <<"Read timeout from TalkAI API - request took too long">>)
    ELSE IF f.class = "ConnectError"
    THEN HTTPException(502,
           <<"Failed to connect to TalkAI API - network connectivity issue">>)
    ELSE IF f.class \in RequestErrors
    THEN HTTPException(502, <<"Network request error: ", f.detail>>)
    ELSE HTTPException(500, <<"Internal server error - check logs for details">>)

---------------------------------------------------------------------------
(* The response adapter: stream_generator and aggregate_stream *)

L(body) == EventPrefix \o body

\* The lines the upstream body is made of
Lines ==
    { L(<<SP, "h", "i">>),           \* "data: hi"
      L(<<SP, "-", "1", SP>>),       \* "data: -1 "
      L(<<SP>>),                     \* "data: "
      L(<<"a", BSL, "n", "b">>),     \* "data:a\nb", the escape inside one line
      L(<<"a", BSL>>),               \* "data:a\", the escape's first half
      L(<<"n", "b">>),               \* "data:nb", the escape's second half
      L(<<BSL, "n">>),               \* "data:\n", nothing but the escape
      <<>>,                          \* the blank line between events
      <<"d", "a", "t", "a", SP, "x">> }  \* "data x": no event prefix

RoleFrame ==
    [data |-> "chunk", delta |-> <<"role", <<"assistant">>>>, finish_reason |-> "null"]
ContentFrame(text) ==
    [data |-> "chunk", delta |-> <<"content", text>>, finish_reason |-> "null"]
StopFrame == [data |-> "chunk", delta |-> <<>>, finish_reason |-> "stop"]
DoneFrame == [data |-> "[DONE]", delta |-> <<>>, finish_reason |-> "null"]

\* A faulty variant of StreamLine: the sentinel is forwarded like any content
StreamLine_NoSentinel(line) ==
    IF StartsWith(line, EventPrefix)
    THEN LET normalized_content == DecodeNewlines(Strip(DropFirst(line, 5))) IN
         IF normalized_content # <<>>
         THEN <<ContentFrame(normalized_content)>>
         ELSE <<>>
    ELSE <<>>

\* stream_generator's loop body: the frames one upstream line yields
StreamLine(line) ==
    IF StartsWith(line, EventPrefix)
    THEN LET normalized_content == DecodeNewlines(Strip(DropFirst(line, 5))) IN
         IF normalized_content # <<>> /\ normalized_content # Sentinel
         THEN <<ContentFrame(normalized_content)>>
         ELSE <<>>
    ELSE <<>>

\* aggregate_stream's loop body: `content` after one upstream line
AggregateLine(acc, line) ==
    IF StartsWith(line, EventPrefix)
    THEN LET data == Strip(DropFirst(line, 5)) IN
         IF data # <<>> /\ data # Sentinel THEN Append(acc, data) ELSE acc
    ELSE acc

\* return "".join(content).replace("\\n", "\n")
AggregateResult(acc) == DecodeNewlines(Join(acc))

RECURSIVE AggregateLoop(_, _)
AggregateLoop(acc, lines) ==
    IF lines = <<>> THEN acc ELSE AggregateLoop(AggregateLine(acc, Head(lines)), Tail(lines))

\* aggregate_stream on a body read to its end
aggregate_stream(lines) == AggregateResult(AggregateLoop(<<>>, lines))

---------------------------------------------------------------------------
(* The state after startup, with no request in flight *)

InitWith(cats) ==
    /\ VALID_CLIENT_KEYS \in KeyConfigs
    /\ catalog \in cats
    /\ now = 0
    /\ pc = "idle"
    /\ req = NoRequest
    /\ messages_history = <<>>
    /\ upstreamCalls = 0
    /\ conn = "none"
    /\ linesRead = <<>>
    /\ content = <<>>
    /\ frames = <<>>
    /\ responses = <<>>
    /\ fault = NoFault
    /\ modelsLog = <<>>

Init == InitWith({<<"m1", "m2">>})

ModelsRequest(a) == [route |-> "models", auth |-> a, messages |-> <<>>, stream |-> FALSE]
ChatRequest(a, ms, st) == [route |-> "chat", auth |-> a, messages |-> ms, stream |-> st]

\* A request arrives on one of the two routes
Receive ==
    /\ pc = "idle"
    /\ req' \in {ModelsRequest(a) : a \in AuthHeaders}
                \cup {ChatRequest(a, ms, st) :
                        a \in AuthHeaders, ms \in ChatBodies, st \in BOOLEAN}
    /\ pc' = "security"
    /\ UNCHANGED <<VALID_CLIENT_KEYS, catalog, now, messages_history, upstreamCalls, conn, linesRead,
                   content, frames, responses, fault, modelsLog>>

\* Depends(authenticate_client), itself Depends(security)
Security ==
    /\ pc = "security"
    /\ IF HTTPBearer(req.auth) = "missing"
       THEN /\ \E st \in BearerRejectStatus :
                 responses' = <<HTTPException(st, <<"Not authenticated">>)>>
            /\ pc' = "done"
       ELSE IF HTTPBearer(req.auth) = "scheme"
       THEN /\ \E st \in BearerRejectStatus :
                 responses' =
                     <<HTTPException(st, <<"Invalid authentication credentials">>)>>
            /\ pc' = "done"
       ELSE IF AuthRejects(VALID_CLIENT_KEYS, req.auth)
       THEN /\ responses' = <<HTTPException(401, <<"Invalid API key">>)>>
            /\ pc' = "done"
       ELSE /\ responses' = responses
            /\ pc' = "handler"
    /\ UNCHANGED <<VALID_CLIENT_KEYS, catalog, now, req, messages_history, upstreamCalls, conn,
                   linesRead, content, frames, fault, modelsLog>>

\* list_models
ListModels ==
    /\ pc = "handler"
    /\ req.route = "models"
    /\ LET body == get_models_list(catalog, now) IN
         /\ responses' = <<Response(200, <<>>, body)>>
         /\ modelsLog' = Append(modelsLog, body)
    /\ pc' = "done"
    /\ UNCHANGED <<VALID_CLIENT_KEYS, catalog, now, req, messages_history, upstreamCalls, conn,
                   linesRead, content, frames, fault>>

\* A faulty variant of ChatStart: the messages are not checked
ChatStart_NoValidation ==
    /\ pc = "handler"
    /\ req.route = "chat"
    /\ messages_history' = Translate(req.messages)
    /\ upstreamCalls' = upstreamCalls + 1
    /\ pc' = "sending"
    /\ UNCHANGED <<VALID_CLIENT_KEYS, catalog, now, req, conn, linesRead, content, frames,
                   responses, fault, modelsLog>>

\* chat_completions up to `await client.send(req, stream=True)`
ChatStart ==
    /\ pc = "handler"
    /\ req.route = "chat"
    /\ IF req.messages = <<>>
       THEN /\ responses' = <<HTTPException(400, <<"Messages required">>)>>
            /\ pc' = "done"
            /\ UNCHANGED <<messages_history, upstreamCalls>>
       ELSE /\ messages_history' = Translate(req.messages)
            /\ upstreamCalls' = upstreamCalls + 1
            /\ pc' = "sending"
            /\ UNCHANGED responses
    /\ UNCHANGED <<VALID_CLIENT_KEYS, catalog, now, req, conn, linesRead, content, frames,
                   fault, modelsLog>>

\* client.send raises
SendFail ==
    /\ pc = "sending"
    /\ \E f \in SendFaults :
         /\ fault' = f
         /\ responses' = <<ErrorMap(f)>>
    /\ pc' = "done"
    /\ UNCHANGED <<VALID_CLIENT_KEYS, catalog, now, req, messages_history, upstreamCalls, conn,
                   linesRead, content, frames, modelsLog>>

\* client.send returns the response head; raise_for_status; the stream branch
SendOk ==
    /\ pc = "sending"
    /\ conn' = "open"
    /\ \E st \in UpstreamStatuses :
         IF IsErrorStatus(st)
         THEN /\ fault' = StatusFault(st)
              /\ responses' = <<ErrorMap(StatusFault(st))>>
              /\ pc' = "done"
         ELSE IF req.stream
         THEN /\ responses' = <<Response(st, <<>>, <<>>)>>
              /\ pc' = "stream_start"
              /\ UNCHANGED fault
         ELSE /\ pc' = "aggregating"
              /\ UNCHANGED <<responses, fault>>
    /\ UNCHANGED <<VALID_CLIENT_KEYS, catalog, now, req, messages_history, upstreamCalls, linesRead,
                   content, frames, modelsLog>>

\* aggregate_stream reads one line
AggregateRead ==
    /\ pc = "aggregating"
    /\ Len(linesRead) < MaxLines
    /\ \E line \in Lines :
         /\ linesRead' = Append(linesRead, line)
         /\ content' = AggregateLine(content, line)
    /\ UNCHANGED <<VALID_CLIENT_KEYS, catalog, now, pc, req, messages_history, upstreamCalls, conn,
                   frames, responses, fault, modelsLog>>

\* The body ends (httpx closes the response it has read to its end);
\* aggregate_stream returns and the handler answers
AggregateEnd ==
    /\ pc = "aggregating"
    /\ conn' = "closed"
    /\ responses' = <<Response(200, <<>>, AggregateResult(content))>>
    /\ pc' = "done"
    /\ UNCHANGED <<VALID_CLIENT_KEYS, catalog, now, req, messages_history, upstreamCalls, linesRead,
                   content, frames, fault, modelsLog>>

\* A faulty variant of AggregateFail: what was read so far is answered with 200
AggregateFail_Partial ==
    /\ pc = "aggregating"
    /\ \E f \in ReadFaults : fault' = f
    /\ responses' = <<Response(200, <<>>, AggregateResult(content))>>
    /\ conn' = "closed"
    /\ pc' = "done"
    /\ UNCHANGED <<VALID_CLIENT_KEYS, catalog, now, req, messages_history, upstreamCalls, linesRead,
                   content, frames, modelsLog>>

\* Reading a line raises inside the try block (the failed read closes the stream)
AggregateFail ==
    /\ pc = "aggregating"
    /\ \E f \in ReadFaults :
         /\ fault' = f
         /\ responses' = <<ErrorMap(f)>>
    /\ conn' = "closed"
    /\ pc' = "done"
    /\ UNCHANGED <<VALID_CLIENT_KEYS, catalog, now, req, messages_history, upstreamCalls, linesRead,
                   content, frames, modelsLog>>

\* stream_generator's first yield
StreamRole ==
    /\ pc = "stream_start"
    /\ frames' = <<RoleFrame>>
    /\ pc' = "reading"
    /\ UNCHANGED <<VALID_CLIENT_KEYS, catalog, now, req, messages_history, upstreamCalls, conn,
                   linesRead, content, responses, fault, modelsLog>>

\* stream_generator reads one line and yields what it gives
StreamRead ==
    /\ pc = "reading"
    /\ Len(linesRead) < MaxLines
    /\ \E line \in Lines :
         /\ linesRead' = Append(linesRead, line)
         /\ frames' = frames \o StreamLine(line)
    /\ UNCHANGED <<VALID_CLIENT_KEYS, catalog, now, pc, req, messages_history, upstreamCalls, conn,
                   content, responses, fault, modelsLog>>

\* A faulty variant of StreamEnd: the stop chunk is left out
StreamEnd_NoStop ==
    /\ pc = "reading"
    /\ conn' = "closed"
    /\ pc' = "stopped"
    /\ UNCHANGED <<VALID_CLIENT_KEYS, catalog, now, req, messages_history, upstreamCalls, linesRead,
                   content, frames, responses, fault, modelsLog>>

\* The body ends (httpx closes the response); the stop chunk is yielded
StreamEnd ==
    /\ pc = "reading"
    /\ conn' = "closed"
    /\ frames' = Append(frames, StopFrame)
    /\ pc' = "stopped"
    /\ UNCHANGED <<VALID_CLIENT_KEYS, catalog, now, req, messages_history, upstreamCalls, linesRead,
                   content, responses, fault, modelsLog>>

\* yield "data: [DONE]\n\n", and the generator returns
StreamDone ==
    /\ pc = "stopped"
    /\ frames' = Append(frames, DoneFrame)
    /\ pc' = "done"
    /\ UNCHANGED <<VALID_CLIENT_KEYS, catalog, now, req, messages_history, upstreamCalls, conn,
                   linesRead, content, responses, fault, modelsLog>>

\* Reading a line raises inside the generator, outside the handler's try block:
\* the response body ends there
StreamFail ==
    /\ pc = "reading"
    /\ \E f \in ReadFaults : fault' = f
    /\ conn' = "closed"
    /\ pc' = "aborted"
    /\ UNCHANGED <<VALID_CLIENT_KEYS, catalog, now, req, messages_history, upstreamCalls, linesRead,
                   content, frames, responses, modelsLog>>

\* What becomes of the upstream stream when the inbound connection closes.
\* Nothing in main.py closes the response or the client. Before the generator
\* has started it is simply dropped; while it runs, the cancellation either
\* lands in the pending upstream read, which closes the stream, or finds the
\* generator suspended at a yield, which leaves it as it is.
CancelOutcomes(at, c) ==
    IF at = "reading" THEN {"open", "closed"} ELSE {c}

\* The inbound connection closes while the stream is being served
Cancel ==
    /\ pc \in {"stream_start", "reading", "stopped"}
    /\ conn' \in CancelOutcomes(pc, conn)
    /\ pc' = "cancelled"
    /\ UNCHANGED <<VALID_CLIENT_KEYS, catalog, now, req, messages_history, upstreamCalls, linesRead,
                   content, frames, responses, fault, modelsLog>>

Next ==
    \/ Receive
    \/ Security
    \/ ListModels
    \/ ChatStart
    \/ SendFail
    \/ SendOk
    \/ AggregateRead
    \/ AggregateEnd
    \/ AggregateFail
    \/ StreamRole
    \/ StreamRead
    \/ StreamEnd
    \/ StreamDone
    \/ StreamFail
    \/ Cancel

Spec == Init /\ [][Next]_vars

---------------------------------------------------------------------------
(* GET /v1/models called again and again while the clock runs *)

ReceiveModels ==
    /\ pc = "idle"
    /\ req' \in {ModelsRequest(a) : a \in AuthHeaders}
    /\ pc' = "security"
    /\ UNCHANGED <<VALID_CLIENT_KEYS, catalog, now, messages_history, upstreamCalls, conn, linesRead,
                   content, frames, responses, fault, modelsLog>>

\* time.time() moves on
Tick ==
    /\ now < MaxTime
    /\ now' = now + 1
    /\ UNCHANGED <<VALID_CLIENT_KEYS, catalog, pc, req, messages_history, upstreamCalls, conn,
                   linesRead, content, frames, responses, fault, modelsLog>>

\* The request is over; the server waits for the next one
NextRequest ==
    /\ pc = "done"
    /\ Len(modelsLog) < MaxCalls
    /\ pc' = "idle"
    /\ req' = NoRequest
    /\ responses' = <<>>
    /\ UNCHANGED <<VALID_CLIENT_KEYS, catalog, now, messages_history, upstreamCalls, conn, linesRead,
                   content, frames, fault, modelsLog>>

InitModels == InitWith(Catalogs)

NextModels ==
    \/ ReceiveModels
    \/ Security
    \/ ListModels
    \/ Tick
    \/ NextRequest

SpecModels == InitModels /\ [][NextModels]_vars

---------------------------------------------------------------------------
(* The request translator over every message list of at most MaxMsgs messages *)

ReceiveChat ==
    /\ pc = "idle"
    /\ req' \in {ChatRequest(a, ms, FALSE) :
                   a \in {NoAuth, Bearer("sk-abc")}, ms \in MessageLists}
    /\ pc' = "security"
    /\ UNCHANGED <<VALID_CLIENT_KEYS, catalog, now, messages_history, upstreamCalls, conn, linesRead,
                   content, frames, responses, fault, modelsLog>>

NextTranslate ==
    \/ ReceiveChat
    \/ Security
    \/ ChatStart

SpecTranslate == Init /\ [][NextTranslate]_vars

---------------------------------------------------------------------------
(* What the claims speak of *)

Ended == pc \in {"done", "cancelled", "aborted"}

Chat == req.route = "chat"
Streaming == Chat /\ req.stream
Aggregating == Chat /\ ~req.stream

AuthDetails ==
    {<<"Not authenticated">>, <<"Invalid authentication credentials">>,
     <<"Invalid API key">>}

AuthDecided == pc \notin {"idle", "security"}
AuthRejected == AuthDecided /\ responses # <<>> /\ responses[1].detail \in AuthDetails
AuthPassed == AuthDecided /\ ~AuthRejected

IsContentFrame(f) ==
    f.data = "chunk" /\ f.finish_reason = "null" /\ f.delta # <<>> /\ f.delta[1] = "content"

\* The content deltas among the frames, in emission order
Deltas(fs) ==
    LET cs == SelectSeq(fs, IsContentFrame) IN [i \in 1..Len(cs) |-> cs[i].delta[2]]

Count(fs, f) == Cardinality({i \in DOMAIN fs : fs[i] = f})

---------------------------------------------------------------------------
(* C1 *)

\* C1: on both routes, with a non-empty credential set a request passes
\* authentication iff it carries a bearer credential of the set, and every other
\* request is answered 401; with an empty set every request passes, the one
\* without an Authorization header included.
C1_AuthGate ==
    AuthDecided =>
        /\ AuthPassed <=>
             \/ VALID_CLIENT_KEYS = {}
             \/ req.auth.scheme = "Bearer" /\ req.auth.credentials \in VALID_CLIENT_KEYS
        /\ AuthRejected => responses[1].status = 401

---------------------------------------------------------------------------
(* C2 *)

\* C2 as stated: every POST /v1/chat/completions with an empty messages list is
\* answered 400 and never reaches the upstream, whatever its other fields and
\* headers are. It is stated of the requests that carry a bearer credential,
\* which HTTPBearer lets through to authenticate_client.
C2_EmptyMessagesAlways400 ==
    (Chat /\ req.messages = <<>> /\ req.auth.scheme = "Bearer") =>
        /\ upstreamCalls = 0
        /\ Ended => responses[1].status = 400

\* C2 as amended: a POST /v1/chat/completions with an empty messages list never
\* reaches the upstream; once it has passed authentication it is answered 400
\* ("Messages required") and nothing else, and otherwise it is answered by the
\* authentication failure (401 or 403).
C2_EmptyMessagesRejected ==
    (Chat /\ req.messages = <<>>) =>
        /\ upstreamCalls = 0
        /\ conn = "none"
        /\ pc \in {"security", "handler", "done"}
        /\ (AuthPassed /\ pc = "done") =>
              responses = <<HTTPException(400, <<"Messages required">>)>>
        /\ AuthRejected => responses[1].status \in {401, 403}

C2_Witness ==
    /\ Chat
    /\ req.messages = <<>>
    /\ pc = "done"
    /\ AuthPassed
    /\ responses[1].status = 400

---------------------------------------------------------------------------
(* C3 *)

\* C3: in streaming mode the frames start with exactly one role chunk, the
\* content chunks follow, and once the upstream body has been read to its end
\* without failure exactly one stop chunk follows them, and the stream that
\* runs to completion ends with exactly one "[DONE]" right after the stop chunk;
\* nothing is ever emitted after "[DONE]".
C3_StreamShape ==
    Streaming =>
        /\ frames # <<>> => frames[1] = RoleFrame
        /\ Count(frames, RoleFrame) <= 1
        /\ Count(frames, StopFrame) <= 1
        /\ Count(frames, DoneFrame) <= 1
        /\ \A i \in DOMAIN frames :
             /\ frames[i] = DoneFrame => i = Len(frames) /\ i > 1 /\ frames[i - 1] = StopFrame
             /\ frames[i] = StopFrame => \A j \in 2..(i - 1) : IsContentFrame(frames[j])
             /\ IsContentFrame(frames[i]) =>
                  i > 1 /\ \A j \in 1..i : frames[j] # StopFrame
        /\ pc = "stopped" =>
             /\ Len(frames) >= 2
             /\ frames[Len(frames)] = StopFrame
        /\ (pc = "done" /\ AuthPassed /\ fault = NoFault /\ req.messages # <<>>) =>
             /\ Len(frames) >= 3
             /\ frames[1] = RoleFrame
             /\ frames[Len(frames) - 1] = StopFrame
             /\ frames[Len(frames)] = DoneFrame
             /\ Count(frames, RoleFrame) = 1
             /\ Count(frames, StopFrame) = 1
             /\ Count(frames, DoneFrame) = 1
             /\ \A j \in 2..(Len(frames) - 2) : IsContentFrame(frames[j])

C3_Witness ==
    /\ Streaming
    /\ pc = "done"
    /\ fault = NoFault
    /\ Len(linesRead) >= 2
    /\ Len(frames) >= 5
    /\ frames[Len(frames)] = DoneFrame

---------------------------------------------------------------------------
(* C4 *)

HasPrefix(line) == StartsWith(line, EventPrefix)
Decoded(line) == DecodeNewlines(Strip(DropFirst(line, Len(EventPrefix))))
Kept(text) == text # <<>> /\ text # Sentinel

\* The lines with the event prefix, each stripped of it, trimmed and decoded,
\* less the empty ones and the sentinels
ExpectedDeltas(lines) ==
    LET prefixed == SelectSeq(lines, HasPrefix)
        decoded == [i \in 1..Len(prefixed) |-> Decoded(prefixed[i])]
    IN SelectSeq(decoded, Kept)

\* C4: in streaming mode the content deltas sent so far are, in order and with
\* nothing left out or repeated, what the upstream lines read so far give; so
\* the chunk of a line is out before the next line is read.
C4_StreamOrder ==
    Streaming => Deltas(frames) = ExpectedDeltas(linesRead)

C4_Witness ==
    /\ Streaming
    /\ pc = "reading"
    /\ Len(linesRead) = 3
    /\ Len(Deltas(frames)) = 2
    /\ linesRead[2] = L(<<SP, "-", "1", SP>>)

---------------------------------------------------------------------------
(* C5 *)

\* The outward status the failure classes are to give
ExpectedStatus(f) ==
    CASE f.class = "HTTPStatusError" -> f.status
      [] f.class = "ConnectTimeout" -> 504
      [] f.class = "ReadTimeout" -> 504
      [] f.class = "ConnectError" -> 502
      [] f.class \in {"WriteTimeout", "ReadError", "RemoteProtocolError"} -> 502
      [] OTHER -> 500

\* The message an upstream error status is to give
ExpectedStatusMessage(st) ==
    CASE st = 401 ->
           <<"TalkAI API authentication failed - API key may be invalid or expired">>
      [] st = 403 -> <<"TalkAI API access forbidden - API key may lack permissions">>
      [] st = 429 -> <<"TalkAI API rate limit exceeded - please try again later">>
      [] st >= 500 ->
           <<"TalkAI API server error - downstream service may be temporarily unavailable">>
      [] OTHER -> <<"TalkAI API error (HTTP ", ToString(st), ")">>

\* The failure was raised inside chat_completions: by send, by raise_for_status
\* or while aggregate_stream read the body
FailedInHandler == fault # NoFault /\ pc = "done"

\* C5: a failure of the upstream call in chat_completions is answered by exactly
\* one error, whose status its class decides: upstream status s gives s with the
\* message s selects, a connect or read timeout 504, a connect failure or any
\* other transport error 502, anything else 500 with a fixed message that holds
\* nothing of the fault; also when the failure comes while the body is aggregated.
C5_ErrorMapping ==
    FailedInHandler =>
        /\ Len(responses) = 1
        /\ responses[1].status = ExpectedStatus(fault)
        /\ responses[1].content = <<>>
        /\ fault.class = "HTTPStatusError" =>
             responses[1].detail = ExpectedStatusMessage(fault.status)
        /\ fault.class \notin ({"HTTPStatusError"} \cup RequestErrors) =>
             /\ responses[1].status = 500
             /\ responses[1].detail = <<"Internal server error - check logs for details">>
             /\ \A i \in DOMAIN responses[1].detail : responses[1].detail[i] # fault.detail

C5_Witness ==
    /\ FailedInHandler
    /\ Aggregating
    /\ fault.class = "ReadTimeout"
    /\ Len(linesRead) >= 1
    /\ content # <<>>
    /\ responses[1].status = 504

---------------------------------------------------------------------------
(* C6 *)

IsTextPart(part) == part.type = "text" /\ part.hasText
IsTurn(msg) == msg.role \in {"user", "assistant"}
IsSystem(msg) == msg.role = "system"

\* The effective text of a message: the string, or its text parts' texts in order
EffectiveText(msg) ==
    IF msg.content.kind = "str" THEN msg.content.text
    ELSE LET ts == SelectSeq(msg.content.parts, IsTextPart)
         IN Join([i \in 1..Len(ts) |-> ts[i].text])

\* The content of the last system message, <<>> when there is none
LastSystem(msgs) ==
    LET ss == SelectSeq(msgs, IsSystem)
    IN IF ss = <<>> THEN <<>> ELSE EffectiveText(ss[Len(ss)])

\* C6: the translated history holds one entry per user/assistant message, in
\* message order; the last system message's content and two newlines are put
\* before the last entry's content iff that content is not empty and the last
\* entry's sender is "you"; everything else is the messages' effective text.
C6_Translation ==
    (Chat /\ pc = "sending") =>
        LET turns == SelectSeq(req.messages, IsTurn)
            sys == LastSystem(req.messages)
            merged == sys # <<>> /\ turns # <<>> /\ turns[Len(turns)].role = "user"
        IN /\ Len(messages_history) = Len(turns)
           /\ \A i \in DOMAIN messages_history :
                /\ messages_history[i].from = (IF turns[i].role = "user" THEN "you" ELSE "assistant")
                /\ messages_history[i].content =
                     IF merged /\ i = Len(turns)
                     THEN sys \o <<NL, NL>> \o EffectiveText(turns[i])
                     ELSE EffectiveText(turns[i])

\* One system message and one user message: one entry, merged
C6_Witness ==
    /\ Chat
    /\ pc = "sending"
    /\ req.messages = <<Msg("system", StrContent(<<"a">>)),
                        Msg("user", ListContent(<<TextPart(<<"b">>), ImagePart,
                                                  TextPart(<<"c">>)>>))>>
    /\ messages_history = <<[from |-> "you", content |-> <<"a", NL, NL, "b", "c">>]>>

---------------------------------------------------------------------------
(* C7 *)

\* C7: once the inbound connection of a stream has closed no further frame is
\* forwarded, and no request that has ended (completed, failed or cancelled)
\* leaves its upstream connection open.
C7_UpstreamReleased ==
    Ended => conn # "open"

---------------------------------------------------------------------------
(* C8 *)

\* What the whole body gives in aggregate mode: the kept tokens joined, then decoded
Token(line) == Strip(DropFirst(line, Len(EventPrefix)))
ExpectedAggregate(lines) ==
    LET prefixed == SelectSeq(lines, HasPrefix)
        tokens == SelectSeq([i \in 1..Len(prefixed) |-> Token(prefixed[i])], Kept)
    IN DecodeNewlines(Join(tokens))

\* C8: the upstream is called at most once per request; a non-streaming request
\* ends with one response, either 200 with the text of the whole upstream body or
\* an error with no content; a streaming request whose upstream answers an error
\* status gets an error and no frame; a failure in mid-stream ends the frames
\* with neither the stop chunk nor "[DONE]"; "[DONE]" is emitted only after the
\* body was read to its end without failure.
C8_NoPartialSuccess ==
    Chat =>
        /\ upstreamCalls <= 1
        /\ (Aggregating /\ Ended) =>
             /\ pc = "done"
             /\ Len(responses) = 1
             /\ frames = <<>>
             /\ \/ /\ responses[1].status = 200
                   /\ fault = NoFault
                   /\ conn = "closed"
                   /\ responses[1].content = ExpectedAggregate(linesRead)
                \/ /\ responses[1].status >= 400
                   /\ responses[1].content = <<>>
        /\ (Streaming /\ fault.class = "HTTPStatusError") =>
             /\ frames = <<>>
             /\ Len(responses) = 1
             /\ responses[1].status = fault.status
        /\ (Streaming /\ pc = "aborted") =>
             /\ Count(frames, StopFrame) = 0
             /\ Count(frames, DoneFrame) = 0
        /\ Count(frames, DoneFrame) > 0 =>
             /\ fault = NoFault
             /\ conn = "closed"
             /\ pc = "done"

\* A failure in mid-stream, after content was forwarded
C8_Witness ==
    /\ Streaming
    /\ pc = "aborted"
    /\ fault.class = "ReadError"
    /\ Len(Deltas(frames)) >= 1
    /\ upstreamCalls = 1

---------------------------------------------------------------------------
(* C9 *)

\* C9: with the catalog file unchanged, any two authenticated calls of GET
\* /v1/models return identical lists: the same entries in the same order, each
\* with the same id, created timestamp and owned_by.
C9_ModelsIdempotent ==
    \A i, j \in DOMAIN modelsLog : modelsLog[i] = modelsLog[j]

---------------------------------------------------------------------------
(* C10 *)

\* C10: for every upstream body read to its end without failure, the content
\* deltas of streaming mode, concatenated in emission order, are the message
\* content aggregate mode gives for the same lines.
C10_ModeEquivalence ==
    (Streaming /\ pc \in {"stopped", "done"} /\ fault = NoFault /\ frames # <<>>) =>
        Join(Deltas(frames)) = aggregate_stream(linesRead)

====
